---- MODULE Spec2Model ----
(***************************************************************************)
(* Model of server.py: the Flask /webhook endpoint, the ThreadPoolExecutor *)
(* it hands updates to, the asyncio loop (telegram_loop) on which          *)
(* telegram_app.process_update runs handle_search / handle_inline_query,   *)
(* and the two search functions the handlers offload to the same pool.     *)
(***************************************************************************)
EXTENDS Integers, Sequences, FiniteSets, TLC

\* ---------------------------------------------------------------- bounds
NumEvents == 2        \* webhook POSTs in one behaviour of Spec
MaxTokens == 2        \* comma-separated fields of the ?sites= argument
MaxSites == 51        \* sources in a search result handed to a handler
MaxJobs == 11         \* jobs of one source in such a result

\* ------------------------------------------------------ program constants
max_workers == 4      \* ThreadPoolExecutor(max_workers=4)
InlineLimit == 50     \* inline_results[:50]

\* ------------------------------------------------------- Python values
None == [t |-> "None"]
PyDict(d) == [t |-> "dict", d |-> d]
PyNum(n) == [t |-> "num", n |-> n]
PyList(items) == [t |-> "list", items |-> items]
\* a str, given by its comma-separated fields
PyStr(fields) == [t |-> "str", fields |-> fields]
isinstance_dict(v) == v.t = "dict"
\* dict.get(key, default) on a dict modelled as a record
Get(d, key, default) == IF key \in DOMAIN d THEN d[key] ELSE default

RECURSIVE SeqSum(_)
SeqSum(s) == IF s = <<>> THEN 0 ELSE Head(s) + SeqSum(Tail(s))

Range(s) == {s[i] : i \in DOMAIN s}

\* ------------------------------------------------------------ Settings
\* Settings.AVAILABLE_SITES / Settings.DEFAULT_SITE_CHOICES (settings.py is
\* not part of src/; the ids are the two job_sites modules server.py names).
AVAILABLE_SITES == {"hh", "geekjob"}
DEFAULT_SITE_CHOICES == <<"hh", "geekjob">>

\* ---------------------------------------------------- request.args 'sites'
\* The query argument is modelled by its comma-separated fields: the string
\* ','.join(fields).  split(',') of a string always yields at least one
\* field (''.split(',') == ['']), so the field list is never empty.
RawTokens == {"hh", " HH ", "geekjob", "GeekJob ", "bogus", " ", ""}

\* str.strip().lower() on the fields above
strip_lower(tok) ==
    CASE tok = "hh"       -> "hh"
      [] tok = " HH "     -> "hh"
      [] tok = "geekjob"  -> "geekjob"
      [] tok = "GeekJob " -> "geekjob"
      [] tok = "bogus"    -> "bogus"
      [] tok = " "        -> ""
      [] tok = ""         -> ""

\* ','.join(Settings.DEFAULT_SITE_CHOICES).split(','): the fields of the
\* default value of request.args.get('sites', ...)
default_arg == DEFAULT_SITE_CHOICES

RECURSIVE filter_sites(_)
\* [site.strip().lower() for site in sites
\*      if site.strip().lower() in Settings.AVAILABLE_SITES]
filter_sites(fields) ==
    IF fields = <<>> THEN <<>>
    ELSE LET s == strip_lower(Head(fields))
         IN  IF s \in AVAILABLE_SITES
             THEN <<s>> \o filter_sites(Tail(fields))
             ELSE filter_sites(Tail(fields))

\* Faulty variant of request_sites: the empty-list fallback is missing.
request_sites_nofallback(arg) ==
    filter_sites(IF arg = None THEN default_arg ELSE arg.fields)

\* search_jobs, lines 42-46: the site list handed to search_all_sites.
\* arg is None when the request has no 'sites' argument, else PyStr(fields).
request_sites(arg) ==
    LET sites == filter_sites(IF arg = None THEN default_arg ELSE arg.fields)
    IN  IF sites = <<>> THEN DEFAULT_SITE_CHOICES ELSE sites

\* search_jobs_for_inline, lines 67-68
inline_sites(sites) == IF sites = None THEN DEFAULT_SITE_CHOICES ELSE sites.items

\* ------------------------------------------- search_service.search_all_sites
Raised == [t |-> "raised"]

JobsA == <<"job1", "job2">>
JobsB == <<"job3">>

\* What one source contributes to the dict search_all_sites returns.
SourceOutcomes ==
    { PyDict([jobs |-> JobsA, timing |-> 100]),
      PyDict([jobs |-> JobsB, timing |-> 250]),
      PyDict([jobs |-> <<>>, timing |-> 100]),
      PyDict([jobs |-> <<>>, timing |-> 30, error |-> "timeout"]),
      PyDict([error |-> "boom"]),
      None }

Succeeded(v) == isinstance_dict(v) /\ Get(v.d, "jobs", <<>>) # <<>>
FailedOrEmpty(v) == ~Succeeded(v)

\* The orders in which the distinct ids of a site list can be inserted.
Orders(S) ==
    {o \in [1..Cardinality(S) -> S] : \A i, j \in DOMAIN o : i # j => o[i] # o[j]}

\* Every value the call search_all_sites(keyword, None, sites) can produce:
\* it raises, or returns a dict (here: its items in insertion order) with one
\* entry per requested id followed by 'global_time'.
search_all_sites(sites, outcomes) ==
    {Raised} \cup
    { PyList([i \in 1..(Len(o) + 1) |->
          IF i <= Len(o) THEN [k |-> o[i], v |-> f[o[i]]]
                         ELSE [k |-> "global_time", v |-> PyNum(300)]]) :
        o \in Orders(Range(sites)), f \in UNION {[Range(sites) -> outcomes]} }

RECURSIVE dict_get(_, _, _)
\* results.get(key, default) on a dict given by its items
dict_get(items, key, default) ==
    IF items = <<>> THEN default
    ELSE IF Head(items).k = key THEN Head(items).v
    ELSE dict_get(Tail(items), key, default)

RECURSIVE format_entries(_)
\* lines 52-55 / 74-77: the dict comprehension over results.items()
format_entries(items) ==
    IF items = <<>> THEN <<>>
    ELSE LET it == Head(items)
         IN  IF it.k # "global_time" /\ isinstance_dict(it.v)
             THEN <<[site      |-> it.k,
                     jobs      |-> Get(it.v.d, "jobs", <<>>),
                     timing_ms |-> Get(it.v.d, "timing", 0)]>>
                  \o format_entries(Tail(items))
             ELSE format_entries(Tail(items))

RECURSIVE format_entries_break(_)
\* format_entries with the loop ending at the first value that is no dict
format_entries_break(items) ==
    IF items = <<>> THEN <<>>
    ELSE LET it == Head(items)
         IN  IF it.k = "global_time" THEN format_entries_break(Tail(items))
             ELSE IF isinstance_dict(it.v)
             THEN <<[site      |-> it.k,
                     jobs      |-> Get(it.v.d, "jobs", <<>>),
                     timing_ms |-> Get(it.v.d, "timing", 0)]>>
                  \o format_entries_break(Tail(items))
             ELSE <<>>

\* Faulty variant of format_results: a source whose value is no dict ends the
\* comprehension instead of being skipped.
format_results_break(items) ==
    [global_time_ms |-> dict_get(items, "global_time", PyNum(0)).n,
     results |-> format_entries_break(items)]

\* lines 49-57 / 71-79: formatted_results
format_results(items) ==
    [global_time_ms |-> dict_get(items, "global_time", PyNum(0)).n,
     results |-> format_entries(items)]

\* lines 48-62 / 70-84: what the function returns for a given outcome of the
\* search_all_sites call
search_return(raw) ==
    IF raw = Raised THEN [error |-> "str(e)"] ELSE format_results(raw.items)

IsError(res) == "error" \in DOMAIN res

total_jobs(res) == SeqSum([i \in DOMAIN res.results |-> Len(res.results[i].jobs)])

\* ------------------------------------------------------------------ state
VARIABLES
    telegram_app,   \* the Application, or None when building it failed (31-37)
    update,         \* update[e]: the body of the e-th POST to /webhook
    resp,           \* resp[e]: the HTTP response the e-th POST got
    future,         \* future[e]: the Future executor.submit returned (105)
    task,           \* task[e]: the process_update coroutine on telegram_loop
    result,         \* result[e]: what the offloaded search handed back
    replies,        \* replies[e]: messages / inline answers sent for e
    running,        \* executor: work items held by the worker threads
    queue,          \* executor: work items waiting for a free worker
    ready,          \* telegram_loop: tasks ready to run, in order
    sj              \* the call examined alone (SpecSearch, SpecHandler)

vars == <<telegram_app, update, resp, future, task, result, replies,
          running, queue, ready, sj>>
bridge == <<telegram_app, update, resp, future, task, result, replies,
            running, queue, ready>>

Application == [t |-> "Application"]
NoResult == [t |-> "NoResult"]

\* Update.de_json / dispatch: what the POSTed body is.
\*   malformed       the body does not parse into an Update with the
\*                   attributes line 95 reads (get_json / de_json raises,
\*                   or de_json returns None)
\*   command         /search <keyword>
\*   command_noargs  /search
\*   inline          inline query, non-empty after strip()
\*   inline_empty    inline query, empty after strip()
\*   message         an update no registered handler matches
Updates == {"malformed", "command", "command_noargs", "inline", "inline_empty",
            "message"}

\* jsonify(...), code
Response(code, json) == [code |-> code, json |-> json]
\* an exception left telegram_webhook: Flask answers 500 without the JSON body
Unhandled(exc) == [code |-> 500, json |-> None, exc |-> exc]

Posted == DOMAIN update

\* ---------------------------------------------------- ThreadPoolExecutor
WorkItem(op, e) == [op |-> op, ev |-> e, pc |-> "start"]

\* executor.submit: an idle worker takes the item, else it waits in the queue
exec_submit(r, q, item) ==
    IF Cardinality(r) < max_workers
    THEN [running |-> r \cup {item}, queue |-> q]
    ELSE [running |-> r, queue |-> Append(q, item)]

\* a worker finished its item and takes the next one from the queue
exec_release(r, q, item) ==
    IF q # <<>>
    THEN [running |-> (r \ {item}) \cup {Head(q)}, queue |-> Tail(q)]
    ELSE [running |-> r \ {item}, queue |-> q]

\* ------------------------------------------------------------- /webhook
\* Faulty variant of telegram_webhook: the "not telegram_app" check is missing.
telegram_webhook_nocheck(u) ==
    LET e == Len(update) + 1
        x == exec_submit(running, queue, WorkItem("process_update", e))
    IN  /\ update' = Append(update, u)
        /\ task' = Append(task, "none")
        /\ result' = Append(result, NoResult)
        /\ replies' = Append(replies, <<>>)
        /\ IF u = "malformed"
           THEN /\ resp' = Append(resp, Unhandled("UnboundLocalError"))
                /\ future' = Append(future, "none")
                /\ UNCHANGED <<running, queue>>
           ELSE /\ resp' = Append(resp, Response(200, [status |-> "success"]))
                /\ future' = Append(future, "pending")
                /\ running' = x.running
                /\ queue' = x.queue
        /\ UNCHANGED <<telegram_app, ready, sj>>

\* telegram_webhook, lines 87-114, for a POST with body u.
\*  - not telegram_app: 500 with the error JSON, nothing submitted.
\*  - the body is malformed: line 94/95 raises before user_id is bound, the
\*    except branch's f-string reads user_id and raises UnboundLocalError,
\*    which leaves the view function.
\*  - else: the lambda is submitted to the executor and the view returns
\*    {'status': 'success'}, 200 at once (the Future is not waited for).
telegram_webhook(u) ==
    LET e == Len(update) + 1
        x == exec_submit(running, queue, WorkItem("process_update", e))
    IN  /\ update' = Append(update, u)
        /\ task' = Append(task, "none")
        /\ result' = Append(result, NoResult)
        /\ replies' = Append(replies, <<>>)
        /\ IF telegram_app = None
           THEN /\ resp' = Append(resp, Response(500,
                       [status |-> "error",
                        message |-> "Telegram bot not initialized"]))
                /\ future' = Append(future, "none")
                /\ UNCHANGED <<running, queue>>
           ELSE IF u = "malformed"
           THEN /\ resp' = Append(resp, Unhandled("UnboundLocalError"))
                /\ future' = Append(future, "none")
                /\ UNCHANGED <<running, queue>>
           ELSE /\ resp' = Append(resp, Response(200, [status |-> "success"]))
                /\ future' = Append(future, "pending")
                /\ running' = x.running
                /\ queue' = x.queue
        /\ UNCHANGED <<telegram_app, ready, sj>>

\* ------------------------------------------- the lambda of lines 106-109
\* asyncio.run_coroutine_threadsafe(telegram_app.process_update(update),
\* telegram_loop): the coroutine is queued on the loop; the worker then
\* blocks in .result(), which has no timeout.
bridge_call(e) ==
    \E item \in running :
        /\ item = WorkItem("process_update", e)
        /\ running' = (running \ {item}) \cup {[item EXCEPT !.pc = "result"]}
        /\ task' = [task EXCEPT ![e] = "scheduled"]
        /\ ready' = Append(ready, e)
        /\ UNCHANGED <<telegram_app, update, resp, future, result, replies,
                       queue, sj>>

\* .result() returns (or re-raises) once the coroutine has finished; the
\* lambda ends, its outcome goes to the Future nobody reads, the worker is free.
bridge_return(e) ==
    \E item \in running :
        /\ item = [WorkItem("process_update", e) EXCEPT !.pc = "result"]
        /\ task[e] \in {"done", "raised"}
        /\ future' = [future EXCEPT ![e] =
                         IF task[e] = "done" THEN "result" ELSE "exception"]
        /\ running' = exec_release(running, queue, item).running
        /\ queue' = exec_release(running, queue, item).queue
        /\ UNCHANGED <<telegram_app, update, resp, task, result, replies,
                       ready, sj>>

\* ----------------------------------------------------------- rendering
Min(a, b) == IF a < b THEN a ELSE b
\* s[:n]
Take(s, n) == SubSeq(s, 1, Min(n, Len(s)))

\* enumerate(jobs, 1): the numbered job lines
job_lines(jobs) == [i \in DOMAIN jobs |-> [line |-> "job", idx |-> i, job |-> jobs[i]]]

RECURSIVE search_response(_)
\* handle_search, lines 137-141: per site a header, up to 3 jobs, a blank line
search_response(entries) ==
    IF entries = <<>> THEN <<>>
    ELSE LET data == Head(entries)
         IN  <<[line |-> "site", site |-> data.site, timing_ms |-> data.timing_ms]>>
             \o job_lines(Take(data.jobs, 3))
             \o <<[line |-> "blank"]>>
             \o search_response(Tail(entries))

\* handle_search, lines 136-143: the message of a search without error
search_message(results) ==
    LET response == <<[line |-> "Search Results:"]>> \o search_response(results.results)
    IN  IF Len(response) > 1 THEN response ELSE <<[line |-> "No jobs found"]>>

UsageMessage == <<[line |-> "Usage: /search <job_keyword>"]>>
ErrorMessage(err) == <<[line |-> "Error", error |-> err]>>

\* InlineQueryResultArticle(id=..., input_message_content=...)
Article(id, text) == [id |-> id, text |-> text]
\* inline_query.answer(results, cache_time=...)
Answer(results, cache_time) == [results |-> results, cache_time |-> cache_time]

RECURSIVE summary_text(_)
\* lines 226-232: per site with jobs a count line, up to 5 jobs, a blank line
summary_text(entries) ==
    IF entries = <<>> THEN <<>>
    ELSE LET data == Head(entries)
         IN  (IF Len(data.jobs) > 0
              THEN <<[line |-> "site", site |-> data.site,
                      jobs_count |-> Len(data.jobs), timing_ms |-> data.timing_ms]>>
                   \o job_lines(Take(data.jobs, 5))
                   \o <<[line |-> "blank"]>>
              ELSE <<>>)
             \o summary_text(Tail(entries))

RECURSIVE site_articles_all(_)
\* Faulty variant of site_articles: the "if jobs" test is missing.
site_articles_all(entries) ==
    IF entries = <<>> THEN <<>>
    ELSE LET data == Head(entries)
         IN  <<Article(<<"site_", data.site>>,
                       <<[line |-> "site", site |-> data.site]>>
                       \o job_lines(Take(data.jobs, 10)))>>
             \o site_articles_all(Tail(entries))

RECURSIVE site_articles_sameid(_)
\* Faulty variant of site_articles: the id does not name the site.
site_articles_sameid(entries) ==
    IF entries = <<>> THEN <<>>
    ELSE LET data == Head(entries)
         IN  (IF data.jobs # <<>>
              THEN <<Article(<<"site_">>,
                             <<[line |-> "site", site |-> data.site]>>
                             \o job_lines(Take(data.jobs, 10)))>>
              ELSE <<>>)
             \o site_articles_sameid(Tail(entries))

RECURSIVE site_articles(_)
\* lines 247-264: one article per site that has jobs, with up to 10 of them
site_articles(entries) ==
    IF entries = <<>> THEN <<>>
    ELSE LET data == Head(entries)
         IN  (IF data.jobs # <<>>
              THEN <<Article(<<"site_", data.site>>,
                             <<[line |-> "site", site |-> data.site]>>
                             \o job_lines(Take(data.jobs, 10)))>>
              ELSE <<>>)
             \o site_articles(Tail(entries))

\* Faulty variant of inline_results: "no results" is decided by the number
\* of sources instead of the number of jobs.
inline_results_nosources(results) ==
    IF results.results = <<>>
    THEN <<Article(<<"no_results">>, <<[line |-> "No jobs found"]>>)>>
    ELSE <<Article(<<"summary">>,
                   <<[line |-> "Job Search Results"]>> \o summary_text(results.results))>>
         \o site_articles(results.results)

\* lines 209-264: inline_results for a search without error
inline_results(results) ==
    IF total_jobs(results) = 0
    THEN <<Article(<<"no_results">>, <<[line |-> "No jobs found"]>>)>>
    ELSE <<Article(<<"summary">>,
                   <<[line |-> "Job Search Results"]>> \o summary_text(results.results))>>
         \o site_articles(results.results)

UsageAnswer == Answer(<<Article(<<"usage">>, <<[line |-> "Usage"]>>)>>, 300)
LoadingAnswer == Answer(<<Article(<<"loading">>, <<[line |-> "Searching"]>>)>>, 1)
ErrorAnswer(err) == Answer(<<Article(<<"error">>, ErrorMessage(err))>>, 60)
GeneralErrorAnswer == Answer(<<Article(<<"error_general">>, <<[line |-> "Error"]>>)>>, 60)
\* Faulty variant of FinalAnswer: inline_results is passed on uncut.
FinalAnswer_uncut(results) == Answer(inline_results(results), 300)

\* lines 267-270
FinalAnswer(results) == Answer(Take(inline_results(results), InlineLimit), 300)

\* ------------------------------------------------- the offloaded searches
\* search_jobs, lines 39-62.  has_ctx: whether a Flask request context is
\* active on the calling thread; without one request.args (line 42) raises
\* RuntimeError, which the except branch turns into the error dict.
search_jobs(has_ctx, raw) ==
    IF ~has_ctx THEN [error |-> "Working outside of request context"]
    ELSE search_return(raw)

\* search_jobs_for_inline, lines 64-84
search_jobs_for_inline(raw) == search_return(raw)

\* The source outcomes drawn while the bridge is explored.
BridgeOutcomes ==
    { PyDict([jobs |-> JobsA, timing |-> 100]),
      PyDict([jobs |-> <<>>, timing |-> 30, error |-> "timeout"]) }

\* The executor thread runs lambda: search_jobs(keyword) (line 128).  The
\* worker thread has no request context.  The awaiting task is woken.
run_search_jobs(e) ==
    \E item \in running :
        /\ item = WorkItem("search_jobs", e)
        /\ result' = [result EXCEPT ![e] = search_jobs(FALSE, Raised)]
        /\ task' = [task EXCEPT ![e] = "resume"]
        /\ ready' = Append(ready, e)
        /\ running' = exec_release(running, queue, item).running
        /\ queue' = exec_release(running, queue, item).queue
        /\ UNCHANGED <<telegram_app, update, resp, future, replies, sj>>

\* The executor thread runs lambda: search_jobs_for_inline(query) (line 190).
\* raw: what its search_all_sites call produces.
run_search_jobs_for_inline(e, raw) ==
    \E item \in running :
        /\ item = WorkItem("search_jobs_for_inline", e)
        /\ raw \in search_all_sites(inline_sites(None), SourceOutcomes)
        /\ result' = [result EXCEPT ![e] = search_jobs_for_inline(raw)]
        /\ task' = [task EXCEPT ![e] = "resume"]
        /\ ready' = Append(ready, e)
        /\ running' = exec_release(running, queue, item).running
        /\ queue' = exec_release(running, queue, item).queue
        /\ UNCHANGED <<telegram_app, update, resp, future, replies, sj>>

\* ------------------------------------------------------- telegram_loop
\* telegram_loop is created at line 33; the thread that runs it is started
\* outside server.py, and the model takes it as running.
\* The loop runs the task at the head of its ready queue up to the task's
\* next await of the executor, or to its end.  The awaits of the Telegram
\* API (reply_text, answer) are taken within the step; each such call
\* either succeeds or raises: sends[1] says whether the handler's call in
\* its try block succeeds, sends[2] whether the call in its except branch does.
SendOutcomes == {<<TRUE, TRUE>>, <<FALSE, TRUE>>, <<FALSE, FALSE>>}

\* What a handler that sends `first` in its try block and `fallback` in its
\* except branch leaves behind.
send(first, fallback, sends) ==
    IF sends[1] THEN [sent |-> <<first>>, task |-> "done"]
    ELSE IF sends[2] THEN [sent |-> <<fallback>>, task |-> "done"]
    ELSE [sent |-> <<>>, task |-> "raised"]

\* Faulty variant of Runs: the loop thread itself waits for an offloaded
\* search (as with executor.submit(...).result() inside a handler).
Runs_blocking(e) ==
    /\ ready # <<>> /\ Head(ready) = e
    /\ \A item \in running \cup Range(queue) :
          item.op \notin {"search_jobs", "search_jobs_for_inline"}

Runs(e) == ready # <<>> /\ Head(ready) = e

\* process_update for an update no handler matches
process_update_nohandler(e) ==
    /\ Runs(e) /\ task[e] = "scheduled" /\ update[e] = "message"
    /\ task' = [task EXCEPT ![e] = "done"]
    /\ ready' = Tail(ready)
    /\ UNCHANGED <<telegram_app, update, resp, future, result, replies,
                   running, queue, sj>>

\* Faulty variant of handle_search_start: the "if not keyword" branch is
\* missing, the search is offloaded whatever the arguments.
handle_search_start_nocheck(e, sends) ==
    /\ Runs(e) /\ task[e] = "scheduled"
    /\ update[e] \in {"command", "command_noargs"}
    /\ ready' = Tail(ready)
    /\ LET x == exec_submit(running, queue, WorkItem("search_jobs", e))
       IN  /\ sends = <<TRUE, TRUE>>
           /\ task' = [task EXCEPT ![e] = "await_executor"]
           /\ running' = x.running
           /\ queue' = x.queue
           /\ UNCHANGED replies
    /\ UNCHANGED <<telegram_app, update, resp, future, result, sj>>

\* handle_search, lines 117-129 (and 146-148): up to the await of the executor
handle_search_start(e, sends) ==
    /\ Runs(e) /\ task[e] = "scheduled"
    /\ update[e] \in {"command", "command_noargs"}
    /\ ready' = Tail(ready)
    /\ IF update[e] = "command_noargs"
       THEN LET s == send([text |-> UsageMessage],
                          [text |-> ErrorMessage("str(e)")], sends)
            IN  /\ replies' = [replies EXCEPT ![e] = @ \o s.sent]
                /\ task' = [task EXCEPT ![e] = s.task]
                /\ UNCHANGED <<running, queue>>
       ELSE LET x == exec_submit(running, queue, WorkItem("search_jobs", e))
            IN  /\ sends = <<TRUE, TRUE>>
                /\ task' = [task EXCEPT ![e] = "await_executor"]
                /\ running' = x.running
                /\ queue' = x.queue
                /\ UNCHANGED replies
    /\ UNCHANGED <<telegram_app, update, resp, future, result, sj>>

\* Faulty variant of handle_search_resume: the return after the error reply
\* (line 134) is missing, so the handler goes on to render the error dict,
\* whose .get('results', {}) is empty.
handle_search_resume_noreturn(e, sends) ==
    /\ Runs(e) /\ task[e] = "resume" /\ update[e] = "command"
    /\ ready' = Tail(ready)
    /\ LET results == result[e]
           s == send([text |-> IF IsError(results)
                               THEN ErrorMessage(results.error)
                               ELSE search_message(results)],
                     [text |-> ErrorMessage("str(e)")], sends)
           more == IF IsError(results) /\ sends[1]
                   THEN <<[text |-> <<[line |-> "No jobs found"]>>]>> ELSE <<>>
       IN  /\ replies' = [replies EXCEPT ![e] = @ \o s.sent \o more]
           /\ task' = [task EXCEPT ![e] = s.task]
    /\ result' = [result EXCEPT ![e] = NoResult]
    /\ UNCHANGED <<telegram_app, update, resp, future, running, queue, sj>>

\* handle_search, lines 131-148: from the executor's result to the end
handle_search_resume(e, sends) ==
    /\ Runs(e) /\ task[e] = "resume" /\ update[e] = "command"
    /\ ready' = Tail(ready)
    /\ LET results == result[e]
           s == send([text |-> IF IsError(results)
                               THEN ErrorMessage(results.error)
                               ELSE search_message(results)],
                     [text |-> ErrorMessage("str(e)")], sends)
       IN  /\ replies' = [replies EXCEPT ![e] = @ \o s.sent]
           /\ task' = [task EXCEPT ![e] = s.task]
    /\ result' = [result EXCEPT ![e] = NoResult]
    /\ UNCHANGED <<telegram_app, update, resp, future, running, queue, sj>>

\* Faulty variant of handle_inline_query_start: the search is offloaded
\* without the "loading" answer having been sent.
handle_inline_query_start_noplaceholder(e, sends) ==
    /\ Runs(e) /\ task[e] = "scheduled"
    /\ update[e] \in {"inline", "inline_empty"}
    /\ ready' = Tail(ready)
    /\ IF update[e] = "inline_empty"
       THEN LET s == send(UsageAnswer, GeneralErrorAnswer, sends)
            IN  /\ replies' = [replies EXCEPT ![e] = @ \o s.sent]
                /\ task' = [task EXCEPT ![e] = s.task]
                /\ UNCHANGED <<running, queue>>
       ELSE LET x == exec_submit(running, queue,
                                 WorkItem("search_jobs_for_inline", e))
            IN  /\ sends = <<TRUE, TRUE>>
                /\ task' = [task EXCEPT ![e] = "await_executor"]
                /\ running' = x.running
                /\ queue' = x.queue
                /\ UNCHANGED replies
    /\ UNCHANGED <<telegram_app, update, resp, future, result, sj>>

\* Faulty variant of handle_inline_query_start: the "if not query" branch is
\* missing, an empty query is searched like any other.
handle_inline_query_start_nocheck(e, sends) ==
    /\ Runs(e) /\ task[e] = "scheduled"
    /\ update[e] \in {"inline", "inline_empty"}
    /\ ready' = Tail(ready)
    /\ LET s == send(LoadingAnswer, GeneralErrorAnswer, sends)
           x == exec_submit(running, queue,
                            WorkItem("search_jobs_for_inline", e))
       IN  /\ replies' = [replies EXCEPT ![e] = @ \o s.sent]
           /\ IF sends[1]
              THEN /\ task' = [task EXCEPT ![e] = "await_executor"]
                   /\ running' = x.running
                   /\ queue' = x.queue
              ELSE /\ task' = [task EXCEPT ![e] = s.task]
                   /\ UNCHANGED <<running, queue>>
    /\ UNCHANGED <<telegram_app, update, resp, future, result, sj>>

\* handle_inline_query, lines 151-191 (and 274-286): up to the await of the
\* executor
handle_inline_query_start(e, sends) ==
    /\ Runs(e) /\ task[e] = "scheduled"
    /\ update[e] \in {"inline", "inline_empty"}
    /\ ready' = Tail(ready)
    /\ IF update[e] = "inline_empty"
       THEN LET s == send(UsageAnswer, GeneralErrorAnswer, sends)
            IN  /\ replies' = [replies EXCEPT ![e] = @ \o s.sent]
                /\ task' = [task EXCEPT ![e] = s.task]
                /\ UNCHANGED <<running, queue>>
       ELSE LET s == send(LoadingAnswer, GeneralErrorAnswer, sends)
                x == exec_submit(running, queue,
                                 WorkItem("search_jobs_for_inline", e))
            IN  /\ replies' = [replies EXCEPT ![e] = @ \o s.sent]
                /\ IF sends[1]
                   THEN /\ task' = [task EXCEPT ![e] = "await_executor"]
                        /\ running' = x.running
                        /\ queue' = x.queue
                   ELSE /\ task' = [task EXCEPT ![e] = s.task]
                        /\ UNCHANGED <<running, queue>>
    /\ UNCHANGED <<telegram_app, update, resp, future, result, sj>>

\* handle_inline_query, lines 193-286: from the executor's result to the end
handle_inline_query_resume(e, sends) ==
    /\ Runs(e) /\ task[e] = "resume" /\ update[e] = "inline"
    /\ ready' = Tail(ready)
    /\ LET search_results == result[e]
           s == send(IF IsError(search_results)
                     THEN ErrorAnswer(search_results.error)
                     ELSE FinalAnswer(search_results),
                     GeneralErrorAnswer, sends)
       IN  /\ replies' = [replies EXCEPT ![e] = @ \o s.sent]
           /\ task' = [task EXCEPT ![e] = s.task]
    /\ result' = [result EXCEPT ![e] = NoResult]
    /\ UNCHANGED <<telegram_app, update, resp, future, running, queue, sj>>

\* --------------------------------------------------------- specification
NoCall == [t |-> "NoCall"]

\* Module load, lines 26-37: the executor is idle, the loop is new, and
\* building the Application either succeeded or left telegram_app = None.
InitBridge ==
    /\ telegram_app \in {Application, None}
    /\ update = <<>> /\ resp = <<>> /\ future = <<>> /\ task = <<>>
    /\ result = <<>> /\ replies = <<>>
    /\ running = {} /\ queue = <<>> /\ ready = <<>>

Init == InitBridge /\ sj = NoCall

\* Spec: up to NumEvents POSTs of any kind, every outcome of every call.
Next ==
    \/ /\ Len(update) < NumEvents
       /\ \E u \in Updates : telegram_webhook(u)
    \/ \E e \in Posted : bridge_call(e)
    \/ \E e \in Posted : bridge_return(e)
    \/ \E e \in Posted : run_search_jobs(e)
    \/ \E e \in Posted :
          \E raw \in search_all_sites(DEFAULT_SITE_CHOICES, BridgeOutcomes) :
              run_search_jobs_for_inline(e, raw)
    \/ \E e \in Posted : process_update_nohandler(e)
    \/ \E e \in Posted, sends \in SendOutcomes : handle_search_start(e, sends)
    \/ \E e \in Posted, sends \in SendOutcomes : handle_search_resume(e, sends)
    \/ \E e \in Posted, sends \in SendOutcomes : handle_inline_query_start(e, sends)
    \/ \E e \in Posted, sends \in SendOutcomes : handle_inline_query_resume(e, sends)

Spec == Init /\ [][Next]_vars

\* ------------------------------------------------- the saturated pool
\* SpecSaturated: as many searching updates as the pool has workers, arriving
\* while telegram_app is initialised; every Telegram call succeeds.
AllSent == <<TRUE, TRUE>>
SaturatingUpdates == {"command", "inline"}
SaturatedRaw ==
    {raw \in search_all_sites(DEFAULT_SITE_CHOICES, BridgeOutcomes) :
        raw # Raised /\ raw.items[1].k = DEFAULT_SITE_CHOICES[1]}

InitSaturated == Init /\ telegram_app = Application

\* What the executor threads and the loop can do (everything but a new POST).
Internal ==
    \/ \E e \in Posted : bridge_call(e)
    \/ \E e \in Posted : bridge_return(e)
    \/ \E e \in Posted : run_search_jobs(e)
    \/ \E e \in Posted : \E raw \in SaturatedRaw : run_search_jobs_for_inline(e, raw)
    \/ \E e \in Posted : handle_search_start(e, AllSent)
    \/ \E e \in Posted : handle_search_resume(e, AllSent)
    \/ \E e \in Posted : handle_inline_query_start(e, AllSent)
    \/ \E e \in Posted : handle_inline_query_resume(e, AllSent)

NextSaturated ==
    \/ /\ Len(update) < max_workers
       /\ \E u \in SaturatingUpdates : telegram_webhook(u)
    \/ Internal

SpecSaturated == InitSaturated /\ [][NextSaturated]_vars

\* The worker threads and the loop thread keep running: whatever of their
\* steps stays possible is eventually taken.
FairSaturated == SpecSaturated /\ WF_vars(Internal)

\* ------------------------------------------ the search functions alone
\* SpecSearch: one call of search_jobs (with any 'sites' argument of up to
\* MaxTokens fields, or none) or of search_jobs_for_inline (as
\* handle_inline_query calls it: sites left at None), against every outcome
\* of search_all_sites.
NotCalled == [t |-> "NotCalled"]

RECURSIVE SeqsUpTo(_, _)
SeqsUpTo(S, n) ==
    IF n = 0 THEN {<<>>}
    ELSE SeqsUpTo(S, n - 1) \cup
         {Append(q, x) : q \in {r \in SeqsUpTo(S, n - 1) : Len(r) = n - 1}, x \in S}

SitesArgs == {None} \cup {PyStr(f) : f \in SeqsUpTo(RawTokens, MaxTokens) \ {<<>>}}

Call(fn, has_ctx, arg) ==
    [fn |-> fn, has_ctx |-> has_ctx, arg |-> arg, phase |-> "called",
     passed |-> NotCalled, raw |-> NotCalled, out |-> NotCalled]

InitSearch ==
    /\ InitBridge /\ telegram_app = Application
    /\ sj \in {Call("search_jobs", c, a) : c \in BOOLEAN, a \in SitesArgs}
              \cup {Call("search_jobs_for_inline", FALSE, None)}

\* search_jobs(keyword), lines 39-62
call_search_jobs ==
    /\ sj.fn = "search_jobs" /\ sj.phase = "called"
    /\ IF ~sj.has_ctx
       THEN sj' = [sj EXCEPT !.phase = "returned",
                             !.out = search_jobs(FALSE, Raised)]
       ELSE LET sites == request_sites(sj.arg)
            IN  \E raw \in search_all_sites(sites, SourceOutcomes) :
                    sj' = [sj EXCEPT !.phase = "returned",
                                     !.passed = PyList(sites),
                                     !.raw = raw,
                                     !.out = search_jobs(TRUE, raw)]
    /\ UNCHANGED bridge

\* search_jobs_for_inline(query), lines 64-84
call_search_jobs_for_inline ==
    /\ sj.fn = "search_jobs_for_inline" /\ sj.phase = "called"
    /\ LET sites == inline_sites(sj.arg)
       IN  \E raw \in search_all_sites(sites, SourceOutcomes) :
               sj' = [sj EXCEPT !.phase = "returned",
                                !.passed = PyList(sites),
                                !.raw = raw,
                                !.out = search_jobs_for_inline(raw)]
    /\ UNCHANGED bridge

NextSearch == call_search_jobs \/ call_search_jobs_for_inline

SpecSearch == InitSearch /\ [][NextSearch]_vars

\* --------------------------------------------- Telegram always answers
\* SpecDelivered: Spec with every reply_text / answer call succeeding.
NextDelivered ==
    \/ /\ Len(update) < NumEvents
       /\ \E u \in Updates : telegram_webhook(u)
    \/ \E e \in Posted : bridge_call(e)
    \/ \E e \in Posted : bridge_return(e)
    \/ \E e \in Posted : run_search_jobs(e)
    \/ \E e \in Posted :
          \E raw \in search_all_sites(DEFAULT_SITE_CHOICES, BridgeOutcomes) :
              run_search_jobs_for_inline(e, raw)
    \/ \E e \in Posted : process_update_nohandler(e)
    \/ \E e \in Posted : handle_search_start(e, AllSent)
    \/ \E e \in Posted : handle_search_resume(e, AllSent)
    \/ \E e \in Posted : handle_inline_query_start(e, AllSent)
    \/ \E e \in Posted : handle_inline_query_resume(e, AllSent)

SpecDelivered == InitSaturated /\ [][NextDelivered]_vars

\* ------------------------------------------------- one handler alone
\* SpecHandler: one update whose process_update coroutine is on the loop,
\* either about to start (any of the four handled kinds) or about to resume
\* with a search result in hand: the error dict, or formatted results of 0 to
\* MaxSites sources whose job counts alternate between two values.  Every
\* Telegram call succeeds.  sj keeps the result the handler was given.
JobCounts == {0, 1, MaxJobs}
JobList(n) == [i \in 1..n |-> ToString(i)]
ResultOf(n, a, b) ==
    [global_time_ms |-> 300,
     results |-> [i \in 1..n |->
                    [site |-> ToString(i),
                     jobs |-> JobList(IF i % 2 = 1 THEN a ELSE b),
                     timing_ms |-> 100]]]
HandlerResults ==
    {[error |-> "str(e)"]}
    \cup {ResultOf(n, a, b) : n \in 0..MaxSites, a \in JobCounts, b \in JobCounts}

HandlerOf(u) == IF u \in {"command", "command_noargs"}
                THEN "handle_search" ELSE "handle_inline_query"

InitHandler ==
    /\ telegram_app = Application
    /\ resp = <<Response(200, [status |-> "success"])>>
    /\ future = <<"pending">>
    /\ running = {[WorkItem("process_update", 1) EXCEPT !.pc = "result"]}
    /\ queue = <<>>
    /\ ready = <<1>>
    /\ \/ /\ update \in {<<u>> : u \in {"command", "command_noargs",
                                        "inline", "inline_empty"}}
          /\ task = <<"scheduled">>
          /\ result = <<NoResult>>
          /\ replies = <<<<>>>>
          /\ sj = Call(HandlerOf(update[1]), FALSE, None)
       \/ /\ update \in {<<"command">>, <<"inline">>}
          /\ task = <<"resume">>
          /\ result \in {<<r>> : r \in HandlerResults}
          /\ replies = <<IF update[1] = "inline" THEN <<LoadingAnswer>> ELSE <<>>>>
          /\ sj = Call(HandlerOf(update[1]), FALSE, result[1])

NextHandler ==
    \/ bridge_return(1)
    \/ run_search_jobs(1)
    \/ \E raw \in search_all_sites(DEFAULT_SITE_CHOICES, BridgeOutcomes) :
          run_search_jobs_for_inline(1, raw)
    \/ handle_search_start(1, AllSent)
    \/ handle_search_resume(1, AllSent)
    \/ handle_inline_query_start(1, AllSent)
    \/ handle_inline_query_resume(1, AllSent)

SpecHandler == InitHandler /\ [][NextHandler]_vars

\* -------------------------------------------------- the loop's own steps
\* What telegram_loop's thread can do: run the task at the head of its
\* ready queue.
LoopStep ==
    \E e \in Posted :
        \/ process_update_nohandler(e)
        \/ \E sends \in SendOutcomes :
              \/ handle_search_start(e, sends)
              \/ handle_search_resume(e, sends)
              \/ handle_inline_query_start(e, sends)
              \/ handle_inline_query_resume(e, sends)

\* ================================================================ claims
Success == Response(200, [status |-> "success"])
IsErrorJson(r) ==
    /\ r.code = 500
    /\ r.json # None
    /\ DOMAIN r.json = {"status", "message"}
    /\ r.json.status = "error"
Accepted(e) == e \in Posted /\ future[e] # "none"
Finished(e) == e \in Posted /\ task[e] \in {"done", "raised"}
\* the handler of e has started and has not finished
InHandler(e) == e \in Posted /\ task[e] \in {"await_executor", "resume"}

\* C1: the response {status: success} of an accepted webhook event is
\* produced only once process_update has finished handling that event (the
\* code has no timeout that could end the wait earlier).
C1_SuccessOnlyAfterProcessing ==
    \A e \in Posted : resp[e] = Success => Finished(e)

\* C2: while telegram_app is None every webhook POST is answered 500 with
\* {status: error}, no task is submitted to the executor, no coroutine is
\* scheduled on the loop, and the executor and the loop stay as they were.
C2_UninitializedNothingEnqueued ==
    telegram_app = None =>
        /\ \A e \in Posted :
              IsErrorJson(resp[e]) /\ future[e] = "none" /\ task[e] = "none"
        /\ running = {} /\ queue = <<>> /\ ready = <<>>

\* C2 witness: a POST has been answered while telegram_app is None.
C2_Witness ==
    telegram_app = None /\ Len(update) >= 1 /\ IsErrorJson(resp[1])

\* C3: when handling an accepted event raised inside the processing domain,
\* the submitter of that event got an error response, not success.
C3_ProcessingErrorSurfaced ==
    \A e \in Posted : task[e] = "raised" => IsErrorJson(resp[e])

\* C4: every accepted webhook event eventually completes (its handler runs
\* to its end, or raises): none stays pending forever.
C4_AcceptedEventuallyCompletes ==
    \A e \in 1..max_workers : Accepted(e) ~> Finished(e)

\* C5: the pool never reaches the state in which each of its max_workers
\* workers is blocked in .result() on a handler that itself waits for a
\* free worker.
C5_NoSaturationDeadlock ==
    ~ ( /\ Cardinality(running) = max_workers
        /\ \A item \in running :
              /\ item.op = "process_update" /\ item.pc = "result"
              /\ task[item.ev] = "await_executor"
              /\ \E i \in DOMAIN queue : queue[i].ev = item.ev )

\* C6: at most one event handler has started and not yet finished.
C6_OneHandlerAtATime ==
    Cardinality({e \in Posted : InHandler(e)}) <= 1

\* C7: every POST to /webhook is answered 200 {status: success} or
\* 500 {status: error, message}.
C7_DefinitiveResponse ==
    \A e \in Posted : resp[e] = Success \/ IsErrorJson(resp[e])

\* ---- the search functions
Returned == sj # NoCall /\ sj.phase = "returned"
Searched == Returned /\ sj.passed # NotCalled
AllInvalid(arg) ==
    arg # None /\ \A i \in DOMAIN arg.fields : strip_lower(arg.fields[i]) \notin AVAILABLE_SITES

\* C8: the site list passed to search_all_sites is non-empty and holds only
\* ids of the registry; a 'sites' argument with only invalid ids resolves to
\* the default set, and so does the absent site list of the inline path.
C8_EmptySiteFallback ==
    Searched =>
        /\ sj.passed.items # <<>>
        /\ Range(sj.passed.items) \subseteq AVAILABLE_SITES
        /\ (sj.fn = "search_jobs" /\ AllInvalid(sj.arg)
                => sj.passed.items = DEFAULT_SITE_CHOICES)
        /\ (sj.fn = "search_jobs_for_inline" /\ sj.arg = None
                => sj.passed.items = DEFAULT_SITE_CHOICES)

\* C8 witness: search_jobs was called with only invalid ids and searched the
\* default set.
C8_Witness ==
    /\ Searched /\ sj.fn = "search_jobs" /\ AllInvalid(sj.arg)
    /\ sj.passed.items = DEFAULT_SITE_CHOICES

ResultSites(res) == [i \in DOMAIN res.results |-> res.results[i].site]
NoDuplicates(s) == \A i, j \in DOMAIN s : i # j => s[i] # s[j]

\* C9: a search never fails as a whole and its result has exactly one entry
\* per requested source id, whatever the sources and search_all_sites do.
C9_Totality ==
    Returned =>
        /\ ~IsError(sj.out)
        /\ sj.passed # NotCalled
        /\ Range(ResultSites(sj.out)) = Range(sj.passed.items)
        /\ NoDuplicates(ResultSites(sj.out))

Without(items, site) == SelectSeq(items, LAMBDA it : it.k # site)
EntriesOf(res, site) == SelectSeq(res.results, LAMBDA r : r.site = site)

\* C10: when search_all_sites returned with source A failed or empty and
\* source B successful, the result is no error, and B's entry (jobs and
\* timing) is what B reported and is the entry B has when A is absent.
C10_FaultIsolation ==
    (Searched /\ sj.raw # Raised) =>
        \A a, b \in DOMAIN sj.raw.items :
            LET A == sj.raw.items[a]
                B == sj.raw.items[b]
            IN  ( /\ A.k # "global_time" /\ B.k # "global_time" /\ a # b
                  /\ FailedOrEmpty(A.v) /\ Succeeded(B.v) )
                =>  /\ ~IsError(sj.out)
                    /\ EntriesOf(sj.out, B.k) =
                          <<[site |-> B.k, jobs |-> B.v.d.jobs,
                             timing_ms |-> B.v.d.timing]>>
                    /\ EntriesOf(sj.out, B.k) =
                          EntriesOf(format_results(Without(sj.raw.items, A.k)), B.k)

\* C10 witness: a search returned where the first source inserted failed
\* without a dict and the second one delivered jobs.
C10_Witness ==
    /\ Searched /\ sj.raw # Raised
    /\ Len(sj.raw.items) = 3
    /\ sj.raw.items[1].v = None
    /\ Succeeded(sj.raw.items[2].v)
    /\ ~IsError(sj.out)

\* ---- one handler alone
\* the handler of update 1 resumed with the result sj.arg and has ended
Rendered(fn) ==
    /\ sj # NoCall /\ sj.fn = fn /\ sj.arg # None
    /\ task[1] = "done"
Ids(answer) == [i \in DOMAIN answer.results |-> answer.results[i].id]
Last(s) == s[Len(s)]
SitesWithJobs(res) == SelectSeq(res.results, LAMBDA r : r.jobs # <<>>)

\* C11: every list passed to inline_query.answer has at most InlineLimit
\* (50) entries, and when the total job count is greater than zero the first
\* entry of the final answer is the summary entry, also after truncation.
C11_CapEnforcement ==
    (sj # NoCall /\ sj.fn = "handle_inline_query") =>
        /\ \A i \in DOMAIN replies[1] : Len(replies[1][i].results) <= InlineLimit
        /\ (Rendered("handle_inline_query") /\ ~IsError(sj.arg)
              /\ total_jobs(sj.arg) > 0)
            => Last(replies[1]).results[1].id = <<"summary">>

\* C11 witness: an answer was cut to InlineLimit entries and starts with
\* the summary entry.
C11_Witness ==
    /\ Rendered("handle_inline_query") /\ ~IsError(sj.arg)
    /\ Len(SitesWithJobs(sj.arg)) >= InlineLimit
    /\ Len(Last(replies[1]).results) = InlineLimit
    /\ Last(replies[1]).results[1].id = <<"summary">>

\* the searches of event e that the executor holds or has queued
SearchItems(e) ==
    {item \in running \cup Range(queue) :
        item.ev = e /\ item.op \in {"search_jobs", "search_jobs_for_inline"}}
\* no search was offloaded for event e
NeverSearched(e) ==
    /\ SearchItems(e) = {}
    /\ result[e] = NoResult
    /\ task[e] \notin {"await_executor", "resume"}

C13_NoResultsEntry ==
    (Rendered("handle_inline_query") /\ ~IsError(sj.arg) /\ total_jobs(sj.arg) = 0)
        => Ids(Last(replies[1])) = << <<"no_results">> >>

\* C13 witness: sources were present, none had a job, and the answer is the
\* single no_results entry.
C13_Witness ==
    /\ Rendered("handle_inline_query") /\ ~IsError(sj.arg)
    /\ Len(sj.arg.results) >= 2 /\ total_jobs(sj.arg) = 0
    /\ Ids(Last(replies[1])) = << <<"no_results">> >>

SummaryAndSiteIds(res) ==
    << <<"summary">> >> \o
    [i \in DOMAIN SitesWithJobs(res) |-> <<"site_", SitesWithJobs(res)[i].site>>]

\* C16: with total jobs > 0 the answer is the summary entry followed by
\* exactly one entry per source that has a job, in the order of the
\* per-source result.
C16_SummaryThenSites ==
    (Rendered("handle_inline_query") /\ ~IsError(sj.arg) /\ total_jobs(sj.arg) > 0)
        => Ids(Last(replies[1])) = SummaryAndSiteIds(sj.arg)

\* C16 as amended: with total jobs > 0 the answer is the first InlineLimit
\* entries of: the summary entry, then one entry per source that has a job,
\* in the order of the per-source result.
C16_SummaryThenSitesCut ==
    (Rendered("handle_inline_query") /\ ~IsError(sj.arg) /\ total_jobs(sj.arg) > 0)
        => Ids(Last(replies[1])) = Take(SummaryAndSiteIds(sj.arg), InlineLimit)

\* C16 witness: a result with a jobless source between sources with jobs was
\* answered, the jobless source without an entry.
C16_Witness ==
    /\ Rendered("handle_inline_query") /\ ~IsError(sj.arg)
    /\ Len(sj.arg.results) = 3
    /\ sj.arg.results[1].jobs # <<>> /\ sj.arg.results[2].jobs = <<>>
    /\ Ids(Last(replies[1])) = << <<"summary">>, <<"site_", "1">>, <<"site_", "3">> >>

\* C20: within one inline answer the entry ids are pairwise distinct.
C20_DistinctIds ==
    (sj # NoCall /\ sj.fn = "handle_inline_query") =>
        \A i \in DOMAIN replies[1] : NoDuplicates(Ids(replies[1][i]))

\* C20 witness: an answer with the summary entry and several site entries.
C20_Witness ==
    /\ Rendered("handle_inline_query")
    /\ Len(Last(replies[1]).results) >= 3
    /\ NoDuplicates(Ids(Last(replies[1])))

C19_ExactlyOneReply ==
    (sj # NoCall /\ sj.fn = "handle_search") =>
        /\ task[1] # "done" => replies[1] = <<>>
        /\ task[1] = "done" =>
              /\ Len(replies[1]) = 1
              /\ replies[1][1].text =
                    IF update[1] = "command_noargs" THEN UsageMessage
                    ELSE IF sj.arg = None THEN ErrorMessage("Working outside of request context")
                    ELSE IF IsError(sj.arg) THEN ErrorMessage(sj.arg.error)
                    ELSE search_message(sj.arg)

\* C19 witness: a /search with keyword ran through the offloaded search,
\* which returned an error, and got the one error reply.
C19_Witness ==
    /\ sj # NoCall /\ sj.fn = "handle_search" /\ sj.arg = None
    /\ update[1] = "command" /\ task[1] = "done"
    /\ Len(replies[1]) = 1 /\ replies[1][1].text[1].line = "Error"

\* ---- the inline handler among other updates
IsInline(e) == e \in Posted /\ update[e] \in {"inline", "inline_empty"}
Dispatched(e) ==
    SearchItems(e) # {} \/ result[e] # NoResult
        \/ task[e] \in {"await_executor", "resume"}
Settled(answer) ==
    answer.results[1].id \in {<<"summary">>, <<"no_results">>, <<"error">>}

\* C17: for a non-empty inline query the one-entry "loading" answer is the
\* first answer sent: it is there when the search is dispatched and before
\* any answer made from the search result; its cache_time (1) is below the
\* cache_time of every other answer (300 or 60).
C17_TwoPhase ==
    \A e \in Posted : IsInline(e) =>
        /\ Dispatched(e) => replies[e] # <<>> /\ replies[e][1] = LoadingAnswer
        /\ \A i \in DOMAIN replies[e] :
              /\ Settled(replies[e][i]) => i > 1 /\ replies[e][1] = LoadingAnswer
              /\ replies[e][i] = LoadingAnswer =>
                    i = 1 /\ Len(LoadingAnswer.results) = 1
              /\ replies[e][i] # LoadingAnswer =>
                    LoadingAnswer.cache_time < replies[e][i].cache_time

\* C17 witness: a non-empty inline query got the placeholder and then the
\* answer with its results.
C17_Witness ==
    \E e \in Posted :
        /\ update[e] = "inline" /\ task[e] = "done"
        /\ Len(replies[e]) = 2 /\ replies[e][1] = LoadingAnswer
        /\ replies[e][2].results[1].id = <<"summary">>
        /\ replies[e][2].cache_time = 300

SearchRunning ==
    \E item \in running : item.op \in {"search_jobs", "search_jobs_for_inline"}

\* C18: while the offloaded search of one event is running on the pool,
\* the loop is not blocked: whenever another task is ready, the loop can
\* take its step.
C18_LoopNotBlocked ==
    (SearchRunning /\ ready # <<>>) => ENABLED LoopStep

\* C18 witness: the search of update 1 is on a worker while the handler of
\* update 2 has been started and has offloaded its own search.
C18_Witness ==
    /\ Len(update) = 2
    /\ WorkItem("search_jobs", 1) \in running
    /\ task[1] = "await_executor" /\ task[2] = "await_executor"

====
